---------------------------- MODULE Spec2Model ----------------------------
(***************************************************************************)
(* The flow_native code generator (crates/flow_native/src/main.rs): the    *)
(* pass that walks a resolved JavaScript module and appends C++ text to    *)
(* the output stream, one `out!` call at a time.                           *)
(*                                                                         *)
(* The recursive descent of gen_program / gen_stmt / gen_expr is modelled  *)
(* as a work stack: lowering a node pops its frame and pushes, in order,   *)
(* the chunks it writes and the frames of the children it recurses into.   *)
(* A chunk is one `out!` call: its format string (k), its numeric          *)
(* arguments (n, m), its operator text (t) and the code points of the      *)
(* program text it embeds (s).                                             *)
(***************************************************************************)
EXTENDS Integers, Sequences, FiniteSets, TLC

(***************************************************************************)
(* Bounds of the input space.                                              *)
(***************************************************************************)
\* longest string literal, in UTF-16 units
MaxStrLen == 2
\* most arguments of a call site
MaxArgs == 2
\* most formals of a function
MaxParams == 2

\* Option::None of sem.node_scope / scope.parent_scope
NoScope == 0 - 1
\* ident_decl that is None or Resolution::Unresolvable
Unresolved == 0 - 1

(***************************************************************************)
(* Sequence helpers.                                                       *)
(***************************************************************************)
RECURSIVE Flatten(_)
Flatten(ss) == IF ss = << >> THEN << >> ELSE Head(ss) \o Flatten(Tail(ss))

SeqMap(Op(_), s) == [i \in 1..Len(s) |-> Op(s[i])]

Range(s) == {s[i] : i \in 1..Len(s)}

Count(s, P(_)) == Cardinality({i \in 1..Len(s) : P(s[i])})

RECURSIVE SeqsUpTo(_, _)
SeqsUpTo(S, n) ==
    IF n = 0 THEN {<< >>}
    ELSE LET shorter == SeqsUpTo(S, n - 1)
         IN  shorter \cup {Append(q, x) : q \in {r \in shorter : Len(r) = n - 1}, x \in S}

(***************************************************************************)
(* Text.  Program text (string literals, identifier names) is a sequence   *)
(* of code points; the fixed text of a format string is ASCII.             *)
(***************************************************************************)
\* The UTF-16 units string literals are drawn from: a, ", newline, e-acute,
\* a combining acute accent, a zero width space, and the two halves of the
\* surrogate pair of U+1F600.
Units == {97, 34, 10, 233, 769, 8203, 55357, 56832}

IsHighSurrogate(u) == u \in 55296..56319
IsLowSurrogate(u) == u \in 56320..57343

\* String::from_utf16_lossy: a surrogate pair is one code point, an unpaired
\* surrogate is U+FFFD.
RECURSIVE FromUtf16Lossy(_)
FromUtf16Lossy(us) ==
    IF us = << >> THEN << >>
    ELSE LET u == Head(us)
         IN  IF IsHighSurrogate(u) /\ Len(us) >= 2 /\ IsLowSurrogate(us[2])
             THEN <<65536 + (u - 55296) * 1024 + (us[2] - 56320)>>
                      \o FromUtf16Lossy(Tail(Tail(us)))
             ELSE IF IsHighSurrogate(u) \/ IsLowSurrogate(u)
             THEN <<65533>> \o FromUtf16Lossy(Tail(us))
             ELSE <<u>> \o FromUtf16Lossy(Tail(us))

HexDigit(d) == IF d < 10 THEN 48 + d ELSE 97 + (d - 10)

RECURSIVE Hex(_)
Hex(n) == IF n < 16 THEN <<HexDigit(n)>> ELSE Hex(n \div 16) \o <<HexDigit(n % 16)>>

\* char::is_grapheme_extended, on the code points the model uses: the
\* combining diacritical marks.
GraphemeExtend(c) == c \in 768..879

\* core::unicode::printable::is_printable, on the code points the model uses:
\* controls, the C1 block and the format characters U+200B..U+200F are not.
IsPrintable(c) == ~(c < 32 \/ c \in 127..159 \/ c \in 8203..8207)

\* char::escape_debug_ext as <str as Debug>::fmt calls it (double quote
\* escaped, single quote not, grapheme extenders escaped).
EscapeDebug(c) ==
    IF c = 0 THEN <<92, 48>>
    ELSE IF c = 9 THEN <<92, 116>>
    ELSE IF c = 13 THEN <<92, 114>>
    ELSE IF c = 10 THEN <<92, 110>>
    ELSE IF c = 92 THEN <<92, 92>>
    ELSE IF c = 34 THEN <<92, 34>>
    ELSE IF GraphemeExtend(c) \/ ~IsPrintable(c) THEN <<92, 117, 123>> \o Hex(c) \o <<125>>
    ELSE <<c>>

\* format!("{:?}", val_str): the quoted, escaped string.
DebugFmt(cs) == <<34>> \o Flatten(SeqMap(EscapeDebug, cs)) \o <<34>>

\* str::is_ascii
IsAsciiText(cs) == \A i \in 1..Len(cs) : cs[i] < 128


(***************************************************************************)
(* The syntax tree.  Every node carries its kind, an id unique in its      *)
(* program, and `scope`: sem.node_scope(node), the scope the resolver      *)
(* attached to it, or NoScope.  An Option<node> field is a sequence of     *)
(* zero or one node.  An Identifier carries `res`: the declaration id      *)
(* sem.ident_decl resolves it to, or Unresolved.                           *)
(***************************************************************************)
Node(kind, id) == [kind |-> kind, id |-> id, scope |-> NoScope]

WithScope(n, s) == [n EXCEPT !.scope = s]

Ident(id, name, res) == [kind |-> "Identifier", id |-> id, scope |-> NoScope,
                         name |-> name, res |-> res]
Num(id, v) == [kind |-> "NumericLiteral", id |-> id, scope |-> NoScope, value |-> v]
Bool(id, v) == [kind |-> "BooleanLiteral", id |-> id, scope |-> NoScope, value |-> v]
Str(id, us) == [kind |-> "StringLiteral", id |-> id, scope |-> NoScope, value |-> us]
This(id) == Node("ThisExpression", id)
Bin(id, op, l, r) == [kind |-> "BinaryExpression", id |-> id, scope |-> NoScope,
                      operator |-> op, left |-> l, right |-> r]
Assign(id, op, l, r) == [kind |-> "AssignmentExpression", id |-> id, scope |-> NoScope,
                         operator |-> op, left |-> l, right |-> r]
Update(id, op, prefix, arg) == [kind |-> "UpdateExpression", id |-> id, scope |-> NoScope,
                                operator |-> op, prefix |-> prefix, argument |-> arg]
Call(id, callee, args) == [kind |-> "CallExpression", id |-> id, scope |-> NoScope,
                           callee |-> callee, arguments |-> args]
Member(id, obj, prop, computed) == [kind |-> "MemberExpression", id |-> id, scope |-> NoScope,
                                    object |-> obj, property |-> prop, computed |-> computed]
Array(id, elems) == [kind |-> "ArrayExpression", id |-> id, scope |-> NoScope,
                     elements |-> elems]
Object(id, props) == [kind |-> "ObjectExpression", id |-> id, scope |-> NoScope,
                      properties |-> props]
Property(id, key, value, computed) == [kind |-> "Property", id |-> id, scope |-> NoScope,
                                       key |-> key, value |-> value, computed |-> computed]
FunExpr(id, ident, params, body) == [kind |-> "FunctionExpression", id |-> id,
                                     scope |-> NoScope, ident |-> ident,
                                     params |-> params, body |-> body]
FunDecl(id, ident, params, body) == [kind |-> "FunctionDeclaration", id |-> id,
                                     scope |-> NoScope, ident |-> ident,
                                     params |-> params, body |-> body]
Block(id, body) == [kind |-> "BlockStatement", id |-> id, scope |-> NoScope, body |-> body]
VarDecl(id, decls) == [kind |-> "VariableDeclaration", id |-> id, scope |-> NoScope,
                       declarations |-> decls]
Declarator(id, ident, init) == [kind |-> "VariableDeclarator", id |-> id, scope |-> NoScope,
                                ident |-> ident, init |-> init]
Return(id, arg) == [kind |-> "ReturnStatement", id |-> id, scope |-> NoScope, argument |-> arg]
ExprStmt(id, e) == [kind |-> "ExpressionStatement", id |-> id, scope |-> NoScope,
                    expression |-> e]
While(id, test, body) == [kind |-> "WhileStatement", id |-> id, scope |-> NoScope,
                          test |-> test, body |-> body]
For(id, init, test, update, body) == [kind |-> "ForStatement", id |-> id, scope |-> NoScope,
                                      init |-> init, test |-> test, update |-> update,
                                      body |-> body]
If(id, test, cons, alt) == [kind |-> "IfStatement", id |-> id, scope |-> NoScope,
                            test |-> test, consequent |-> cons, alternate |-> alt]
Try(id, block, handler, finalizer) == [kind |-> "TryStatement", id |-> id, scope |-> NoScope,
                                       block |-> block, handler |-> handler,
                                       finalizer |-> finalizer]
Catch(id, param, body) == [kind |-> "CatchClause", id |-> id, scope |-> NoScope,
                           param |-> param, body |-> body]
Throw(id, arg) == [kind |-> "ThrowStatement", id |-> id, scope |-> NoScope, argument |-> arg]
Empty(id) == Node("EmptyStatement", id)
Module(id, s, body) == [kind |-> "Module", id |-> id, scope |-> s, body |-> body]

StmtKinds == {"BlockStatement", "VariableDeclaration", "VariableDeclarator",
              "FunctionDeclaration", "ReturnStatement", "ExpressionStatement",
              "WhileStatement", "ForStatement", "IfStatement", "TryStatement",
              "ThrowStatement", "EmptyStatement"}

ExprKinds == {"FunctionExpression", "ObjectExpression", "ArrayExpression",
              "MemberExpression", "CallExpression", "Identifier",
              "AssignmentExpression", "BinaryExpression", "UpdateExpression",
              "NumericLiteral", "BooleanLiteral", "StringLiteral", "ThisExpression"}

(***************************************************************************)
(* The semantic context of a program: scopes[i + 1] is scope i (its        *)
(* parent, the declarations it owns, its depth), decls[d + 1] is           *)
(* declaration d (its owning scope, its kind).                             *)
(***************************************************************************)
Scope(parent, decls, depth) == [parent |-> parent, decls |-> decls, depth |-> depth]
Decl(scope, kind) == [scope |-> scope, kind |-> kind]

GlobalKinds == {"UndeclaredGlobalProperty", "GlobalProperty"}
LocalKinds == {"Var", "Let", "Parameter", "ES5Catch", "FunctionExprName", "ScopedFunction"}

Program(ast, scopes, decls) == [ast |-> ast, scopes |-> scopes, decls |-> decls]

\* BinaryExpressionOperator::as_str of every variant
BinaryOps == {"==", "!=", "===", "!==", "<", "<=", ">", ">=", "<<", ">>", ">>>",
              "+", "-", "*", "/", "%", "|", "^", "&", "**", "in", "instanceof"}

\* AssignmentExpressionOperator::as_str of every variant
AssignOps == {"=", "<<=", ">>=", ">>>=", "+=", "-=", "*=", "/=", "%=",
              "|=", "^=", "&=", "**="}

\* UpdateExpressionOperator::as_str of every variant
UpdateOps == {"++", "--"}

(***************************************************************************)
(* Output chunks: one per `out!` call.  k names the format string, n and m *)
(* are its numeric arguments, t its operator text, s the code points of    *)
(* the program text it embeds.                                             *)
(***************************************************************************)
Chunk(k, n, m, t, s) == [k |-> k, n |-> n, m |-> m, t |-> t, s |-> s]
Fixed(k) == Chunk(k, 0, 0, "", << >>)

\* "#include \"runtime/FNRuntime.h\"\n"
Include == Fixed("Include")
\* "struct Scope{i};\n"
FwdDecl(i) == Chunk("FwdDecl", i, 0, "", << >>)
\* "struct Scope{i}{\n"
StructOpen(i) == Chunk("StructOpen", i, 0, "", << >>)
\* "Scope{parent} *parent;\n"
ParentField(p) == Chunk("ParentField", p, 0, "", << >>)
\* "FNValue var{decl}=FNValue::encodeUndefined();\n"
VarField(d) == Chunk("VarField", d, 0, "", << >>)
\* "};\n"
StructClose == Fixed("StructClose")
\* "int main(){\n"
MainOpen == Fixed("MainOpen")
\* "Scope{s} *scope{s}=new Scope{s}();\n", with or without blanks around "="
NewScope(s) == Chunk("NewScope", s, 0, "", << >>)
\* "scope{new}->parent = scope{cur};\n"
SetParent(new, cur) == Chunk("SetParent", new, cur, "", << >>)
\* "return 0;\n}"
Return0 == Fixed("Return0")
\* "void *parent_scope"
EnvParam == Fixed("EnvParam")
\* ", FNValue param{i}"
ValueParam(i) == Chunk("ValueParam", i, 0, "", << >>)
\* "->props[\"{name}\"]"
PropsName(name) == Chunk("PropsName", 0, 0, "", name)
\* "FNValue::encodeClosure(new FNClosure{(void(*)(void))(+[]("
ClosureOpen == Fixed("ClosureOpen")
\* "\nScope{scope} *scope{scope} = (Scope{scope}*)parent_scope;"
BindEnv(s) == Chunk("BindEnv", s, 0, "", << >>)
\* "=param{i};\n"
ParamCopy(i) == Chunk("ParamCopy", i, 0, "", << >>)
\* "}), scope{scope}})"
ClosureClose(s) == Chunk("ClosureClose", s, 0, "", << >>)
\* "scope{scope}->"
ScopeArrow(s) == Chunk("ScopeArrow", s, 0, "", << >>)
\* "parent->"
ParentArrow == Fixed("ParentArrow")
\* the "parent->" loop of a wrapped u32 count: 2^32 - deficit times "parent->"
ParentArrowWrapped(deficit) == Chunk("ParentArrowWrapped", deficit, 0, "", << >>)
\* "var{decl_id}"
VarSlot(d) == Chunk("VarSlot", d, 0, "", << >>)
\* "{type_str}{op}" and "{type_str}" of an assignment; n = 1 with ".getNumberRef()"
AssignOp(ref, op) == Chunk("AssignOp", ref, 0, op, << >>)
AssignEnd(ref) == Chunk("AssignEnd", ref, 0, "", << >>)
\* "FNValue::encode{res_type}("
EncodeOpen(resType) == Chunk("EncodeOpen", 0, 0, resType, << >>)
\* ".getNumber(){op_str}"
GetNumberOp(opStr) == Chunk("GetNumberOp", 0, 0, opStr, << >>)
\* "{}" of an update operator
UpdateOp(op) == Chunk("UpdateOp", 0, 0, op, << >>)
\* "FNValue::encodeNumber({value})"
EncodeNumber(v) == Chunk("EncodeNumber", v, 0, "", << >>)
\* "FNValue::encodeBool({value})"
EncodeBool(b) == Chunk("EncodeBool", 0, 0, IF b THEN "true" ELSE "false", << >>)
\* "FNValue::encodeString(new FNString{{:?}})"
EncodeString(text) == Chunk("EncodeString", 0, 0, "", text)

\* debug_assert!(buf.is_ascii()): the fixed text, the numbers and the
\* operators of a chunk are ASCII, so the chunk is when its embedded text is.
IsAscii(c) == IsAsciiText(c.s)

(***************************************************************************)
(* Frames of the work stack.                                               *)
(***************************************************************************)
E(c) == [t |-> "emit", c |-> c]
F(k) == E(Fixed(k))
S(node, scope) == [t |-> "stmt", node |-> node, scope |-> scope]
X(node, scope) == [t |-> "expr", node |-> node, scope |-> scope]
\* a panic met after earlier chunks of the same handler: unwrap, node_cast!, todo!
PanicF(msg) == [t |-> "panic", msg |-> msg]

\* for x in list { gen(x); out!(sep) }
Each(list, Gen(_), sep) == Flatten([i \in 1..Len(list) |-> <<Gen(list[i])>> \o sep])

\* the children of a node
Kids(n) ==
    CASE n.kind \in {"Module", "BlockStatement"} -> n.body
      [] n.kind = "VariableDeclaration" -> n.declarations
      [] n.kind = "VariableDeclarator" -> <<n.ident>> \o n.init
      [] n.kind \in {"FunctionDeclaration", "FunctionExpression"} ->
             n.ident \o n.params \o <<n.body>>
      [] n.kind = "ReturnStatement" -> n.argument
      [] n.kind = "ExpressionStatement" -> <<n.expression>>
      [] n.kind = "WhileStatement" -> <<n.test, n.body>>
      [] n.kind = "ForStatement" -> n.init \o n.test \o n.update \o <<n.body>>
      [] n.kind = "IfStatement" -> <<n.test, n.consequent>> \o n.alternate
      [] n.kind = "TryStatement" -> <<n.block>> \o n.handler \o n.finalizer
      [] n.kind = "CatchClause" -> n.param \o <<n.body>>
      [] n.kind = "ThrowStatement" -> <<n.argument>>
      [] n.kind = "ObjectExpression" -> n.properties
      [] n.kind = "Property" -> <<n.key, n.value>>
      [] n.kind = "ArrayExpression" -> n.elements
      [] n.kind = "MemberExpression" -> <<n.object, n.property>>
      [] n.kind = "CallExpression" -> <<n.callee>> \o n.arguments
      [] n.kind \in {"AssignmentExpression", "BinaryExpression"} -> <<n.left, n.right>>
      [] n.kind = "UpdateExpression" -> <<n.argument>>
      [] OTHER -> << >>

Ids(nodes) == [i \in 1..Len(nodes) |-> nodes[i].id]

\* the operator of an expression that has one
OperatorOf(node) ==
    IF node.kind \in {"BinaryExpression", "AssignmentExpression", "UpdateExpression"}
    THEN node.operator ELSE ""

\* the number of arguments of a call, of formals of a function
ArityOf(node) ==
    IF node.kind = "CallExpression" THEN Len(node.arguments)
    ELSE IF node.kind \in {"FunctionExpression", "FunctionDeclaration"} THEN Len(node.params)
    ELSE 0

\* a call of gen_stmt or gen_expr, or a node a handler lowers inline: what
\* the node is (its name and resolution, its operator, its arity), the
\* current scope it was given, the output length at that point, and the ids
\* of the nodes that lie directly inside it, in source order
Lowered(node, scope, at, kids) ==
    [id |-> node.id, kind |-> node.kind, attached |-> node.scope,
     name |-> IF node.kind = "Identifier" THEN node.name ELSE << >>,
     res |-> IF node.kind = "Identifier" THEN node.res ELSE Unresolved,
     op |-> OperatorOf(node), arity |-> ArityOf(node),
     cur |-> scope, at |-> at, kids |-> kids]

(***************************************************************************)
(* State.                                                                  *)
(***************************************************************************)
VARIABLES
    prog,          \* the input: the module's tree and its semantic context
    debug_build,   \* whether debug assertions and overflow checks are compiled in
    stack,         \* the pending work of the traversal, next frame first
    out,           \* the chunks written to the output stream so far
    lowered,       \* the nodes lowered so far, with the scope each was lowered in
    status         \* "running", "done" or "panicked"

vars == <<prog, debug_build, stack, out, lowered, status>>

Top == Head(stack)
Running == status = "running" /\ stack # << >>
Push(frames) == stack' = frames \o Tail(stack)
Log(entries) == lowered' = lowered \o entries
Here(node, scope) == Lowered(node, scope, Len(out), Ids(Kids(node)))
\* a function and its body: the formals lie inside the body's scope
HereFunction(node, scope) ==
    <<Lowered(node, scope, Len(out), Ids(node.ident \o <<node.body>>)),
      Lowered(node.body, scope, Len(out), Ids(node.params \o Kids(node.body)))>>

\* the arm of a match took the node: push its frames, or panic on the spot
Step(frames, entries) ==
    /\ Push(frames)
    /\ Log(entries)
    /\ UNCHANGED <<prog, debug_build, out, status>>

Abort ==
    /\ status' = "panicked"
    /\ UNCHANGED <<prog, debug_build, stack, out, lowered>>

SemScope(s) == prog.scopes[s + 1]
SemDecl(d) == prog.decls[d + 1]

(***************************************************************************)
(* Helpers of the compiler.                                                *)
(***************************************************************************)
\* the loop over 0..count run one time short
ParamListForArgCountShort(count) ==
    <<E(EnvParam)>> \o [i \in 1..(count - 1) |-> E(ValueParam(i - 1))]

\* param_list_for_arg_count
ParamListForArgCount(count) == <<E(EnvParam)>> \o [i \in 1..count |-> E(ValueParam(i - 1))]

\* init_scope: the scope to continue in, and the chunks written
InitScope(node, scope) ==
    IF node.scope # NoScope
    THEN [scope |-> node.scope,
          frames |-> <<E(NewScope(node.scope)), E(SetParent(node.scope, scope))>>]
    ELSE [scope |-> scope, frames |-> << >>]

\* gen_member_prop
GenMemberProp(property, computed, scope) ==
    IF computed
    THEN <<F("GetByValOpen"), X(property, scope), F("CloseParen")>>
    ELSE IF property.kind = "Identifier"
    THEN <<E(PropsName(property.name))>>
    ELSE <<PanicF("node_cast")>>

\* gen_function_exp
GenFunctionExp(params, block, scope) ==
    <<E(ClosureOpen)>> \o ParamListForArgCount(Len(params)) \o <<F("LambdaOpen")>> \o
    IF block.scope = NoScope THEN <<PanicF("unwrap")>>
    ELSE LET fn_scope == block.scope
             CopyParam(i) == <<X(params[i], fn_scope), E(ParamCopy(i - 1))>>
             BodyStmt(stmt) == S(stmt, fn_scope)
         IN  <<E(BindEnv(scope)), E(NewScope(fn_scope)), E(SetParent(fn_scope, scope))>> \o
             Flatten([i \in 1..Len(params) |-> CopyParam(i)]) \o
             IF block.kind # "BlockStatement" THEN <<PanicF("node_cast")>>
             ELSE Each(block.body, BodyStmt, <<F("SemiNewline")>>) \o
                  <<E(ClosureClose(scope))>>

(***************************************************************************)
(* The driver.                                                             *)
(***************************************************************************)
\* gen_program
GenProgram ==
    /\ Running /\ Top.t = "program"
    /\ LET node == prog.ast
           scope == node.scope
           TopStmt(stmt) == S(stmt, scope)
       IN  Step(<<E(Include), [t |-> "context"], E(MainOpen)>> \o
                IF scope = NoScope THEN <<PanicF("unwrap")>>
                ELSE IF node.kind # "Module" THEN <<PanicF("node_cast")>>
                ELSE <<E(NewScope(scope))>> \o Each(node.body, TopStmt, <<F("Semi")>>) \o
                     <<E(Return0)>>,
                <<Here(node, scope)>>)

\* the definition of one scope struct
StructDef(i) ==
    LET scope == SemScope(i)
    IN  <<E(StructOpen(i))>> \o
        (IF scope.parent # NoScope THEN <<E(ParentField(scope.parent))>> ELSE << >>) \o
        [j \in 1..Len(scope.decls) |-> E(VarField(scope.decls[j]))] \o
        <<E(StructClose)>>

\* gen_context with its two loops in the other order
GenContextDefinesFirst ==
    /\ Running /\ Top.t = "context"
    /\ LET n == Len(prog.scopes)
       IN  Step(Flatten([i \in 1..n |-> StructDef(i - 1)]) \o
                [i \in 1..n |-> E(FwdDecl(i - 1))],
                << >>)

\* gen_context
GenContext ==
    /\ Running /\ Top.t = "context"
    /\ LET n == Len(prog.scopes)
       IN  Step([i \in 1..n |-> E(FwdDecl(i - 1))] \o
                Flatten([i \in 1..n |-> StructDef(i - 1)]),
                << >>)

\* Writer::write_ascii
WriteAscii ==
    /\ Running /\ Top.t = "emit"
    /\ IF debug_build /\ ~IsAscii(Top.c)
       THEN Abort
       ELSE /\ out' = Append(out, Top.c)
            /\ stack' = Tail(stack)
            /\ UNCHANGED <<prog, debug_build, lowered, status>>

\* a panic that follows earlier output of the same handler
Panic ==
    /\ Running /\ Top.t = "panic"
    /\ Abort

\* gen_program returns: Compiler::compile is over
Finish ==
    /\ status = "running" /\ stack = << >>
    /\ status' = "done"
    /\ UNCHANGED <<prog, debug_build, stack, out, lowered>>

(***************************************************************************)
(* gen_stmt, one action per match arm.                                     *)
(***************************************************************************)
AtStmt(kinds) == Running /\ Top.t = "stmt" /\ Top.node.kind \in kinds
AtExpr(kinds) == Running /\ Top.t = "expr" /\ Top.node.kind \in kinds

Opt(list, Gen(_)) == IF list = << >> THEN << >> ELSE Gen(list[1])

StmtBlock ==
    /\ AtStmt({"BlockStatement"})
    /\ LET node == Top.node
           init == InitScope(node, Top.scope)
           Inner(stmt) == S(stmt, init.scope)
       IN  Step(<<F("BlockOpen")>> \o init.frames \o SeqMap(Inner, node.body) \o
                <<F("BlockClose")>>,
                <<Here(node, Top.scope)>>)

StmtVariableDeclaration ==
    /\ AtStmt({"VariableDeclaration"})
    /\ LET scope == Top.scope
           Declr(decl) == S(decl, scope)
       IN  Step(SeqMap(Declr, Top.node.declarations), <<Here(Top.node, scope)>>)

StmtVariableDeclarator ==
    /\ AtStmt({"VariableDeclarator"})
    /\ LET node == Top.node
           scope == Top.scope
       IN  Step(IF node.init # << >>
                THEN <<X(node.ident, scope), F("Equals"), X(node.init[1], scope)>>
                ELSE << >>,
                <<Here(node, scope)>>)

StmtFunctionDeclaration ==
    /\ AtStmt({"FunctionDeclaration"})
    /\ LET node == Top.node
           scope == Top.scope
           Bind(ident) == <<X(ident, scope), F("Equals")>>
       IN  Step(<<F("OpenParen")>> \o Opt(node.ident, Bind) \o
                GenFunctionExp(node.params, node.body, scope) \o <<F("CloseParen")>>,
                HereFunction(node, scope))

StmtReturn ==
    /\ AtStmt({"ReturnStatement"})
    /\ LET node == Top.node
           scope == Top.scope
       IN  Step(<<F("Return")>> \o
                (IF node.argument # << >> THEN <<X(node.argument[1], scope)>>
                 ELSE <<F("EncodeUndefined")>>) \o
                <<F("Semi")>>,
                <<Here(node, scope)>>)

StmtExpression ==
    /\ AtStmt({"ExpressionStatement"})
    /\ Step(<<X(Top.node.expression, Top.scope), F("Semi")>>, <<Here(Top.node, Top.scope)>>)

StmtWhile ==
    /\ AtStmt({"WhileStatement"})
    /\ LET node == Top.node
           scope == Top.scope
       IN  Step(<<F("WhileOpen"), X(node.test, scope), F("GetBoolBrace"),
                  S(node.body, scope), F("NewlineBrace")>>,
                <<Here(node, scope)>>)

StmtFor ==
    /\ AtStmt({"ForStatement"})
    /\ LET node == Top.node
           init == InitScope(node, Top.scope)
           inner == init.scope
           Init1(n) == <<S(n, inner)>>
           Test1(n) == <<X(n, inner), F("GetBool")>>
           Update1(n) == <<X(n, inner)>>
       IN  Step(<<F("Brace")>> \o init.frames \o <<F("ForOpen")>> \o
                Opt(node.init, Init1) \o <<F("Semi")>> \o
                Opt(node.test, Test1) \o <<F("Semi")>> \o
                Opt(node.update, Update1) \o <<F("CloseParenBrace")>> \o
                <<S(node.body, inner), F("CloseBrace"), F("CloseBrace")>>,
                <<Here(node, Top.scope)>>)

StmtIf ==
    /\ AtStmt({"IfStatement"})
    /\ LET node == Top.node
           scope == Top.scope
           Alt(n) == <<S(n, scope)>>
       IN  Step(<<F("IfOpen"), X(node.test, scope), F("GetBoolBrace"),
                  S(node.consequent, scope), F("Else")>> \o
                Opt(node.alternate, Alt) \o <<F("NewlineBrace")>>,
                <<Here(node, scope)>>)

\* the handler of a try statement: the catch clause is lowered inline
CatchFrames(handler, scope) ==
    IF handler.kind # "CatchClause" THEN <<PanicF("node_cast")>>
    ELSE LET init == InitScope(handler, scope)
             new_scope == init.scope
             Param(n) == <<X(n, new_scope), F("EqualsEx")>>
             HandlerStmt(stmt) == S(stmt, new_scope)
         IN  init.frames \o
             IF handler.body.kind # "BlockStatement" THEN <<PanicF("node_cast")>>
             ELSE Opt(handler.param, Param) \o
                  Each(handler.body.body, HandlerStmt, <<F("Semi")>>) \o
                  <<F("CloseBrace")>>

StmtTry ==
    /\ AtStmt({"TryStatement"})
    /\ LET node == Top.node
           scope == Top.scope
       IN  Step(<<F("TryOpen"), S(node.block, scope), F("CatchOpen")>> \o
                IF node.handler = << >> THEN <<PanicF("todo")>>
                ELSE CatchFrames(node.handler[1], scope),
                <<Here(node, scope)>> \o
                IF node.handler = << >> THEN << >>
                ELSE <<Here(node.handler[1], scope),
                       Here(node.handler[1].body, InitScope(node.handler[1], scope).scope)>>)

StmtThrow ==
    /\ AtStmt({"ThrowStatement"})
    /\ Step(<<F("Throw"), X(Top.node.argument, Top.scope)>>, <<Here(Top.node, Top.scope)>>)

\* _ => unimplemented!()
StmtUnimplemented ==
    /\ Running /\ Top.t = "stmt"
    /\ Top.node.kind \notin StmtKinds \ {"EmptyStatement"}
    /\ Abort

(***************************************************************************)
(* gen_expr, one action per match arm.                                     *)
(***************************************************************************)
ExprFunction ==
    /\ AtExpr({"FunctionExpression"})
    /\ LET node == Top.node
       IN  Step(GenFunctionExp(node.params, node.body, Top.scope),
                HereFunction(node, Top.scope))

\* one property of an object literal
PropertyFrames(prop, scope) ==
    IF prop.kind # "Property" THEN <<PanicF("node_cast")>>
    ELSE <<F("Tmp")>> \o GenMemberProp(prop.key, prop.computed, scope) \o
         <<F("Equals"), X(prop.value, scope), F("SemiNewline")>>

ExprObject ==
    /\ AtExpr({"ObjectExpression"})
    /\ LET node == Top.node
           scope == Top.scope
           Prop(prop) == PropertyFrames(prop, scope)
           Entry(prop) == Here(prop, scope)
       IN  Step(<<F("ObjectOpen")>> \o Flatten(SeqMap(Prop, node.properties)) \o
                <<F("ObjectClose")>>,
                <<Here(node, scope)>> \o SeqMap(Entry, node.properties))

ExprArray ==
    /\ AtExpr({"ArrayExpression"})
    /\ LET scope == Top.scope
           Elem(elem) == X(elem, scope)
       IN  Step(<<F("ArrayOpen")>> \o Each(Top.node.elements, Elem, <<F("Comma")>>) \o
                <<F("ArrayClose")>>,
                <<Here(Top.node, scope)>>)

ExprMember ==
    /\ AtExpr({"MemberExpression"})
    /\ LET node == Top.node
           scope == Top.scope
       IN  Step(<<X(node.object, scope), F("GetObject")>> \o
                GenMemberProp(node.property, node.computed, scope),
                <<Here(node, scope)>>)

ExprCall ==
    /\ AtExpr({"CallExpression"})
    /\ LET node == Top.node
           scope == Top.scope
           Arg(arg) == <<F("CommaSpace"), X(arg, scope)>>
       IN  Step(<<F("CallOpen"), X(node.callee, scope), F("GetClosureCast")>> \o
                ParamListForArgCount(Len(node.arguments)) \o
                <<F("CastClose"), F("TmpEnv")>> \o
                Flatten(SeqMap(Arg, node.arguments)) \o <<F("CallClose")>>,
                <<Here(node, scope)>>)

\* u32 subtraction of the depths: the count of "parent->" written
ParentChain(cur, owner) ==
    IF cur >= owner THEN [i \in 1..(cur - owner) |-> E(ParentArrow)]
    ELSE <<E(ParentArrowWrapped(owner - cur))>>

\* the match on decl.kind with one of its two patterns left out
IsGlobalKindDeclaredOnly(kind) == kind = "GlobalProperty"

\* whether the declaration is lowered as a property of the global object
IsGlobalKind(kind) == kind \in GlobalKinds

ExprIdentifier ==
    /\ AtExpr({"Identifier"})
    /\ LET node == Top.node
           scope == Top.scope
           decl_id == node.res
       IN  IF decl_id = Unresolved THEN Abort
           ELSE LET decl == SemDecl(decl_id)
                    cur == SemScope(scope).depth
                    owner == SemScope(decl.scope).depth
                IN  IF IsGlobalKind(decl.kind)
                    THEN Step(<<F("Global")>> \o GenMemberProp(node, FALSE, scope),
                              <<Here(node, scope)>>)
                    ELSE IF cur < owner /\ debug_build THEN Abort
                    ELSE Step(<<E(ScopeArrow(scope))>> \o ParentChain(cur, owner) \o
                              <<E(VarSlot(decl_id))>>,
                              <<Here(node, scope)>>)

\* the match on the assignment operator: 0 for "", 1 for ".getNumberRef()"
AssignTypeStr(op) ==
    IF op = "=" THEN 0
    ELSE IF op \in {"+=", "-=", "%=", "/=", "*="} THEN 1
    ELSE 0 - 1

ExprAssignment ==
    /\ AtExpr({"AssignmentExpression"})
    /\ LET node == Top.node
           scope == Top.scope
           type_str == AssignTypeStr(node.operator)
       IN  IF type_str < 0 THEN Abort
           ELSE Step(<<X(node.left, scope), E(AssignOp(type_str, node.operator)),
                       X(node.right, scope), E(AssignEnd(type_str))>>,
                     <<Here(node, scope)>>)

\* the first match on the binary operator
BinaryOpStr(op) ==
    IF op = "===" THEN "=="
    ELSE IF op = "!==" THEN "!="
    ELSE op

\* the second match on the binary operator; "" is the panic arm
BinaryResType(op) ==
    IF op \in {"==", "===", "!==", "<", "<=", ">", ">="} THEN "Bool"
    ELSE IF op \in {"<<", ">>", "+", "-", "*", "/", "%"} THEN "Number"
    ELSE ""

ExprBinary ==
    /\ AtExpr({"BinaryExpression"})
    /\ LET node == Top.node
           scope == Top.scope
           op_str == BinaryOpStr(node.operator)
           res_type == BinaryResType(node.operator)
       IN  IF res_type = "" THEN Abort
           ELSE Step(<<E(EncodeOpen(res_type)), X(node.left, scope), E(GetNumberOp(op_str)),
                       X(node.right, scope), F("GetNumberClose")>>,
                     <<Here(node, scope)>>)

ExprUpdate ==
    /\ AtExpr({"UpdateExpression"})
    /\ LET node == Top.node
           scope == Top.scope
       IN  Step(<<E(EncodeOpen("Number"))>> \o
                (IF node.prefix THEN <<E(UpdateOp(node.operator))>> ELSE << >>) \o
                <<X(node.argument, scope), F("GetNumberRef")>> \o
                (IF ~node.prefix THEN <<E(UpdateOp(node.operator))>> ELSE << >>) \o
                <<F("CloseParen")>>,
                <<Here(node, scope)>>)

ExprNumericLiteral ==
    /\ AtExpr({"NumericLiteral"})
    /\ Step(<<E(EncodeNumber(Top.node.value))>>, <<Here(Top.node, Top.scope)>>)

ExprBooleanLiteral ==
    /\ AtExpr({"BooleanLiteral"})
    /\ Step(<<E(EncodeBool(Top.node.value))>>, <<Here(Top.node, Top.scope)>>)

\* the text a string literal is written as
StringLiteralText(value) == DebugFmt(FromUtf16Lossy(value))

ExprStringLiteral ==
    /\ AtExpr({"StringLiteral"})
    /\ Step(<<E(EncodeString(StringLiteralText(Top.node.value)))>>,
            <<Here(Top.node, Top.scope)>>)

\* _ => unimplemented!()
ExprUnimplemented ==
    /\ Running /\ Top.t = "expr"
    /\ Top.node.kind \notin ExprKinds \ {"ThisExpression"}
    /\ Abort

(***************************************************************************)
(* Inputs: resolved modules.  Names are code points: a single letter each. *)
(***************************************************************************)
NmA == <<97>>
NmB == <<98>>
NmE == <<101>>
NmF == <<102>>
NmG == <<103>>
NmI == <<105>>
NmO == <<111>>
NmP == <<112>>
NmX == <<120>>
NmY == <<121>>
NmZ == <<122>>
\* e-acute, a letter outside ASCII
NmEAcute == <<233>>

Root(decls) == Scope(NoScope, decls, 0)

\* var x = 1; x = x + 1;
ProgAssign ==
    Program(
      Module(0, 0, <<
        VarDecl(1, <<Declarator(2, Ident(3, NmX, 0), <<Num(4, 1)>>)>>),
        ExprStmt(5, Assign(6, "=", Ident(7, NmX, 0),
                           Bin(8, "+", Ident(9, NmX, 0), Num(10, 1))))>>),
      <<Root(<<0>>)>>,
      <<Decl(0, "Var")>>)

\* function f(a){ return a + 1; } var y = f(41);
ProgFunction ==
    Program(
      Module(0, 0, <<
        FunDecl(1, <<Ident(2, NmF, 0)>>, <<Ident(3, NmA, 2)>>,
                WithScope(Block(4, <<Return(5, <<Bin(6, "+", Ident(7, NmA, 2),
                                                     Num(8, 1))>>)>>), 1)),
        VarDecl(9, <<Declarator(10, Ident(11, NmY, 1),
                                <<Call(12, Ident(13, NmF, 0), <<Num(14, 41)>>)>>)>>)>>),
      <<Root(<<0, 1>>), Scope(0, <<2>>, 1)>>,
      <<Decl(0, "ScopedFunction"), Decl(0, "Var"), Decl(1, "Parameter")>>)

\* for (let i = 0; i < 3; i++) { }
ProgFor ==
    Program(
      Module(0, 0, <<
        WithScope(For(1,
                      <<VarDecl(2, <<Declarator(3, Ident(4, NmI, 0), <<Num(5, 0)>>)>>)>>,
                      <<Bin(6, "<", Ident(7, NmI, 0), Num(8, 3))>>,
                      <<Update(9, "++", FALSE, Ident(10, NmI, 0))>>,
                      WithScope(Block(11, << >>), 2)), 1)>>),
      <<Root(<< >>), Scope(0, <<0>>, 1), Scope(1, << >>, 2)>>,
      <<Decl(1, "Let")>>)

\* try { throw 1; } catch (e) { var y = e; }
ProgTryCatch ==
    Program(
      Module(0, 0, <<
        Try(1, WithScope(Block(2, <<Throw(3, Num(4, 1))>>), 1),
            <<WithScope(Catch(5, <<Ident(6, NmE, 1)>>,
                              Block(7, <<VarDecl(8, <<Declarator(9, Ident(10, NmY, 0),
                                                       <<Ident(11, NmE, 1)>>)>>)>>)), 2)>>,
            << >>)>>),
      <<Root(<<0>>), Scope(0, << >>, 1), Scope(0, <<1>>, 1)>>,
      <<Decl(0, "Var"), Decl(2, "ES5Catch")>>)

\* var x = 1; z;      with z unresolvable
ProgUnresolved ==
    Program(
      Module(0, 0, <<
        VarDecl(1, <<Declarator(2, Ident(3, NmX, 0), <<Num(4, 1)>>)>>),
        ExprStmt(5, Ident(6, NmZ, Unresolved))>>),
      <<Root(<<0>>)>>,
      <<Decl(0, "Var")>>)

\* var x; try { x = 1; } catch (e) { x = 2; } finally { x = 3; }
ProgTryCatchFinally ==
    Program(
      Module(0, 0, <<
        VarDecl(1, <<Declarator(2, Ident(3, NmX, 0), << >>)>>),
        Try(4, WithScope(Block(5, <<ExprStmt(6, Assign(7, "=", Ident(8, NmX, 0),
                                                     Num(9, 1)))>>), 1),
            <<WithScope(Catch(10, <<Ident(11, NmE, 1)>>,
                              Block(12, <<ExprStmt(13, Assign(14, "=", Ident(15, NmX, 0),
                                                              Num(16, 2)))>>)), 2)>>,
            <<WithScope(Block(17, <<ExprStmt(18, Assign(19, "=", Ident(20, NmX, 0),
                                                        Num(21, 3)))>>), 3)>>)>>),
      <<Root(<<0>>), Scope(0, << >>, 1), Scope(0, <<1>>, 1), Scope(0, << >>, 1)>>,
      <<Decl(0, "Var"), Decl(2, "ES5Catch")>>)

\* try { 1; } finally { 2; }
ProgTryFinally ==
    Program(
      Module(0, 0, <<
        Try(1, WithScope(Block(2, <<ExprStmt(3, Num(4, 1))>>), 1),
            << >>,
            <<WithScope(Block(5, <<ExprStmt(6, Num(7, 2))>>), 2)>>)>>),
      <<Root(<< >>), Scope(0, << >>, 1), Scope(0, << >>, 1)>>,
      << >>)

\* var o = {a: 1, [x]: true};
\* var x = [1, o.a, o[0]];
\* while (x) { if (x) { --x; } else { x += 1; } }
\* if (x) p(x);                      p is an undeclared global
\* var f = function () { return; };
ProgMisc ==
    Program(
      Module(0, 0, <<
        VarDecl(1, <<Declarator(2, Ident(3, NmO, 0),
          <<Object(4, <<Property(5, Ident(6, NmA, Unresolved), Num(7, 1), FALSE),
                        Property(8, Ident(9, NmX, 1), Bool(10, TRUE), TRUE)>>)>>)>>),
        VarDecl(11, <<Declarator(12, Ident(13, NmX, 1),
          <<Array(14, <<Num(15, 1),
                        Member(16, Ident(17, NmO, 0), Ident(18, NmA, Unresolved), FALSE),
                        Member(19, Ident(20, NmO, 0), Num(21, 0), TRUE)>>)>>)>>),
        While(22, Ident(23, NmX, 1),
          WithScope(Block(24, <<
            If(25, Ident(26, NmX, 1),
               WithScope(Block(27, <<ExprStmt(28, Update(29, "--", TRUE,
                                                         Ident(30, NmX, 1)))>>), 2),
               <<Block(31, <<ExprStmt(32, Assign(33, "+=", Ident(34, NmX, 1),
                                                 Num(35, 1)))>>)>>)>>), 1)),
        If(36, Ident(37, NmX, 1),
           ExprStmt(38, Call(39, Ident(40, NmP, 2), <<Ident(41, NmX, 1)>>)),
           << >>),
        VarDecl(42, <<Declarator(43, Ident(44, NmF, 3),
          <<FunExpr(45, << >>, << >>,
                    WithScope(Block(46, <<Return(47, << >>)>>), 3))>>)>>)>>),
      <<Root(<<0, 1, 2, 3>>), Scope(0, << >>, 1), Scope(1, << >>, 2), Scope(0, << >>, 1)>>,
      <<Decl(0, "Var"), Decl(0, "Var"), Decl(0, "UndeclaredGlobalProperty"),
        Decl(0, "Var")>>)

\* var x = 1; var f = function g() { return x; };
\* the resolver gives the name g a scope of its own, attached to the
\* function expression; the function's scope is attached to its body
ProgNamedFunction ==
    Program(
      Module(0, 0, <<
        VarDecl(1, <<Declarator(2, Ident(3, NmX, 0), <<Num(4, 1)>>)>>),
        VarDecl(5, <<Declarator(6, Ident(7, NmF, 1),
          <<WithScope(FunExpr(8, <<Ident(9, NmG, 2)>>, << >>,
                              WithScope(Block(10, <<Return(11, <<Ident(12, NmX, 0)>>)>>),
                                        2)), 1)>>)>>)>>),
      <<Root(<<0, 1>>), Scope(0, <<2>>, 1), Scope(1, << >>, 2)>>,
      <<Decl(0, "Var"), Decl(0, "Var"), Decl(1, "FunctionExprName")>>)

\* function f(a) { { let b = a; return function () { return a + b; }; } }
ProgNested ==
    Program(
      Module(0, 0, <<
        FunDecl(1, <<Ident(2, NmF, 0)>>, <<Ident(3, NmA, 1)>>,
          WithScope(Block(4, <<
            WithScope(Block(5, <<
              VarDecl(6, <<Declarator(7, Ident(8, NmB, 2), <<Ident(9, NmA, 1)>>)>>),
              Return(10, <<FunExpr(11, << >>, << >>,
                WithScope(Block(12, <<Return(13, <<Bin(14, "+", Ident(15, NmA, 1),
                                                       Ident(16, NmB, 2))>>)>>),
                          3))>>)>>), 2)>>), 1))>>),
      <<Root(<<0>>), Scope(0, <<1>>, 1), Scope(1, <<2>>, 2), Scope(2, << >>, 3)>>,
      <<Decl(0, "ScopedFunction"), Decl(1, "Parameter"), Decl(2, "Let")>>)

\* ({"a": 1});
ProgStringKey ==
    Program(
      Module(0, 0, <<
        ExprStmt(1, Object(2, <<Property(3, Str(4, NmA), Num(5, 1), FALSE)>>))>>),
      <<Root(<< >>)>>,
      << >>)

\* 1; ; 2;
ProgEmptyStatement ==
    Program(
      Module(0, 0, <<ExprStmt(1, Num(2, 1)), Empty(3), ExprStmt(4, Num(5, 2))>>),
      <<Root(<< >>)>>,
      << >>)

\* this;
ProgThis == Program(Module(0, 0, <<ExprStmt(1, This(2))>>), <<Root(<< >>)>>, << >>)

\* e-acute;      an undeclared global whose name is not ASCII
ProgNonAsciiName ==
    Program(
      Module(0, 0, <<ExprStmt(1, Ident(2, NmEAcute, 0))>>),
      <<Root(<<0>>)>>,
      <<Decl(0, "UndeclaredGlobalProperty")>>)

\* var a = 1, b = 2;
ProgTwoDeclarators ==
    Program(
      Module(0, 0, <<
        VarDecl(1, <<Declarator(2, Ident(3, NmA, 0), <<Num(4, 1)>>),
                     Declarator(5, Ident(6, NmB, 1), <<Num(7, 2)>>)>>)>>),
      <<Root(<<0, 1>>)>>,
      <<Decl(0, "Var"), Decl(0, "Var")>>)

\* { var b = 1; throw b; b = 2; }
ProgBlockOfStatements ==
    Program(
      Module(0, 0, <<
        Block(1, <<
          VarDecl(2, <<Declarator(3, Ident(4, NmB, 0), <<Num(5, 1)>>)>>),
          Throw(6, Ident(7, NmB, 0)),
          ExprStmt(8, Assign(9, "=", Ident(10, NmB, 0), Num(11, 2)))>>)>>),
      <<Root(<<0>>)>>,
      <<Decl(0, "Var")>>)

\* function f() { var a = 1; throw a; a = 2; }
ProgFunctionOfStatements ==
    Program(
      Module(0, 0, <<
        FunDecl(1, <<Ident(2, NmF, 0)>>, << >>,
          WithScope(Block(3, <<
            VarDecl(4, <<Declarator(5, Ident(6, NmA, 1), <<Num(7, 1)>>)>>),
            Throw(8, Ident(9, NmA, 1)),
            ExprStmt(10, Assign(11, "=", Ident(12, NmA, 1), Num(13, 2)))>>), 1))>>),
      <<Root(<<0>>), Scope(0, <<1>>, 1)>>,
      <<Decl(0, "ScopedFunction"), Decl(1, "Var")>>)

FixedPrograms ==
    <<ProgAssign, ProgFunction, ProgFor, ProgTryCatch, ProgUnresolved,
      ProgTryCatchFinally, ProgTryFinally, ProgMisc, ProgNamedFunction, ProgNested,
      ProgStringKey, ProgEmptyStatement, ProgThis, ProgNonAsciiName,
      ProgTwoDeclarators, ProgBlockOfStatements, ProgFunctionOfStatements>>

\* "<us>";
StringProgram(us) ==
    Program(Module(0, 0, <<ExprStmt(1, Str(2, us))>>), <<Root(<< >>)>>, << >>)

\* 1 <op> 2;
BinaryProgram(op) ==
    Program(Module(0, 0, <<ExprStmt(1, Bin(2, op, Num(3, 1), Num(4, 2)))>>),
            <<Root(<< >>)>>, << >>)

\* var x; x <op> 1;
AssignProgram(op) ==
    Program(
      Module(0, 0, <<
        VarDecl(1, <<Declarator(2, Ident(3, NmX, 0), << >>)>>),
        ExprStmt(4, Assign(5, op, Ident(6, NmX, 0), Num(7, 1)))>>),
      <<Root(<<0>>)>>,
      <<Decl(0, "Var")>>)

\* function f(p1, .., pk) { } f(1, .., n);
CallProgram(k, n) ==
    Program(
      Module(0, 0, <<
        FunDecl(1, <<Ident(2, NmF, 0)>>, [i \in 1..k |-> Ident(10 + i, <<96 + i>>, i)],
                WithScope(Block(3, << >>), 1)),
        ExprStmt(4, Call(5, Ident(6, NmF, 0), [j \in 1..n |-> Num(20 + j, j)]))>>),
      <<Root(<<0>>), Scope(0, [i \in 1..k |-> i], 1)>>,
      <<Decl(0, "ScopedFunction")>> \o [i \in 1..k |-> Decl(1, "Parameter")])

(***************************************************************************)
(* The specification.                                                      *)
(***************************************************************************)
Init ==
    /\ \/ \E i \in 1..Len(FixedPrograms) : prog = FixedPrograms[i]
       \/ \E us \in SeqsUpTo(Units, MaxStrLen) : prog = StringProgram(us)
       \/ \E op \in BinaryOps : prog = BinaryProgram(op)
       \/ \E op \in AssignOps : prog = AssignProgram(op)
       \/ \E k \in 0..MaxParams, n \in 0..MaxArgs : prog = CallProgram(k, n)
    /\ debug_build \in BOOLEAN
    /\ stack = <<[t |-> "program"]>>
    /\ out = << >>
    /\ lowered = << >>
    /\ status = "running"

Next ==
    \/ GenProgram
    \/ GenContext
    \/ WriteAscii
    \/ Panic
    \/ Finish
    \/ StmtBlock
    \/ StmtVariableDeclaration
    \/ StmtVariableDeclarator
    \/ StmtFunctionDeclaration
    \/ StmtReturn
    \/ StmtExpression
    \/ StmtWhile
    \/ StmtFor
    \/ StmtIf
    \/ StmtTry
    \/ StmtThrow
    \/ StmtUnimplemented
    \/ ExprFunction
    \/ ExprObject
    \/ ExprArray
    \/ ExprMember
    \/ ExprCall
    \/ ExprIdentifier
    \/ ExprAssignment
    \/ ExprBinary
    \/ ExprUpdate
    \/ ExprNumericLiteral
    \/ ExprBooleanLiteral
    \/ ExprStringLiteral
    \/ ExprUnimplemented

Spec == Init /\ [][Next]_vars

(***************************************************************************)
(* Reading the output and the log.                                         *)
(***************************************************************************)
NumScopes == Len(prog.scopes)
At(k) == {i \in 1..Len(out) : out[i].k = k}
Before(i, k) == {j \in 1..(i - 1) : out[j].k = k}
StructKinds == {"StructOpen", "ParentField", "VarField", "StructClose"}
HeaderKinds == {"Include", "FwdDecl", "MainOpen"} \cup StructKinds
Entries(id) == {i \in 1..Len(lowered) : lowered[i].id = id}
TopLevel == prog.ast.body

(***************************************************************************)
(* C1.  The output is, in this order: the one #include, the forward        *)
(* declarations of the N scope records in id order, the N record           *)
(* definitions in id order, the entry point that first allocates the root  *)
(* scope record, the top-level statements in source order, and, when the   *)
(* pass completes, the success return as the last chunk.  No definition    *)
(* precedes the last forward declaration and no lowered statement precedes *)
(* the last definition.                                                    *)
(***************************************************************************)
C1_OutputOrder ==
    /\ \A i \in 1..Len(out) :
        /\ (out[i].k = "Include") <=> (i = 1)
        /\ (out[i].k = "FwdDecl") <=> (i \in 2..(NumScopes + 1))
        /\ out[i].k = "FwdDecl" => out[i].n = i - 2
        /\ out[i].k \in StructKinds =>
               /\ i > NumScopes + 1
               /\ Before(i, "MainOpen") = {}
        /\ out[i].k = "StructOpen" => out[i].n = Cardinality(Before(i, "StructOpen"))
        /\ out[i].k = "MainOpen" =>
               /\ Cardinality(Before(i, "StructOpen")) = NumScopes
               /\ Cardinality(Before(i, "StructClose")) = NumScopes
               /\ Before(i, "MainOpen") = {}
               /\ out[i - 1].k = "StructClose"
        /\ out[i].k \notin HeaderKinds =>
               /\ Cardinality(Before(i, "MainOpen")) = 1
               /\ out[i - 1].k = "MainOpen" <=> out[i] = NewScope(prog.ast.scope)
                                                  /\ Before(i, "NewScope") = {}
        /\ out[i].k = "Return0" => i = Len(out)
    /\ \A j \in 1..Len(TopLevel) :
        \A e \in Entries(TopLevel[j].id) :
            /\ lowered[e].at >= NumScopes + 3 + Cardinality(At("StructOpen"))
            /\ At("NewScope") # {}
            /\ j > 1 => \E d \in Entries(TopLevel[j - 1].id) :
                            d < e /\ lowered[d].at < lowered[e].at
    /\ status = "done" =>
        /\ out[Len(out)] = Return0
        /\ \A j \in 1..Len(TopLevel) : Cardinality(Entries(TopLevel[j].id)) = 1

\* a completed pass over a module of several scopes and several statements
C1_Witness ==
    /\ status = "done"
    /\ NumScopes >= 2
    /\ Len(TopLevel) >= 2

(***************************************************************************)
(* The record definition of scope s in the output: the chunks between its  *)
(* "struct Scope{s}{" and the next "};".                                   *)
(***************************************************************************)
DeclIds == {d - 1 : d \in 1..Len(prog.decls)}
Closed(i) == {j \in (i + 1)..Len(out) : out[j].k = "StructClose"} # {}
CloseOf(i) == CHOOSE j \in (i + 1)..Len(out) :
                  /\ out[j].k = "StructClose"
                  /\ \A l \in (i + 1)..(j - 1) : out[l].k # "StructClose"
FieldsOf(i) == {j \in (i + 1)..(CloseOf(i) - 1) : TRUE}
Slots(i, d) == {j \in FieldsOf(i) : out[j] = VarField(d)}
ParentLinks(i) == {j \in FieldsOf(i) : out[j].k = "ParentField"}

\* the parent link of every record definition written so far is as the scope's parent
ParentLinkMatches(i) ==
    LET parent == SemScope(out[i].n).parent
    IN  IF parent = NoScope THEN ParentLinks(i) = {}
        ELSE /\ Cardinality(ParentLinks(i)) = 1
             /\ \A j \in ParentLinks(i) : out[j] = ParentField(parent)

(***************************************************************************)
(* C2.  The record definition of every scope has a parent-link field iff   *)
(* the scope has a parent, typed as the parent's record, and exactly one   *)
(* storage slot for each ordinary-local declaration the scope owns; a      *)
(* declaration of kind global-property or undeclared-global-property has   *)
(* no storage slot in any record.                                          *)
(***************************************************************************)
C2_RecordFields ==
    \A i \in At("StructOpen") : Closed(i) =>
        /\ ParentLinkMatches(i)
        /\ \A d \in DeclIds :
               Cardinality(Slots(i, d)) =
                   IF SemDecl(d).scope = out[i].n /\ SemDecl(d).kind \in LocalKinds
                   THEN 1 ELSE 0

\* what the code does: one slot for each declaration of the scope, of any kind
C2_SlotPerDeclaration ==
    \A i \in At("StructOpen") : Closed(i) =>
        /\ ParentLinkMatches(i)
        /\ \A d \in DeclIds :
               Cardinality(Slots(i, d)) = IF SemDecl(d).scope = out[i].n THEN 1 ELSE 0

(***************************************************************************)
(* Scope instantiation as the output shows it.                             *)
(***************************************************************************)
LogIx == 1..Len(lowered)
Allocations(s) == {i \in At("NewScope") : out[i].n = s}
LinkSets(s) == {i \in At("SetParent") : out[i].n = s}
\* the entries of the nodes directly inside the node of entry e
InsideOf(e) == {f \in LogIx : lowered[f].id \in Range(lowered[e].kids)}

\* entry e's node has an attached scope: one allocation of it, linked to the
\* scope that was current, and everything inside lowered in the new scope
EntersScope(e) ==
    LET s == lowered[e].attached
    IN  /\ Cardinality(Allocations(s)) = 1
        /\ Cardinality(LinkSets(s)) = 1
        /\ \A i \in Allocations(s) :
               i < Len(out) /\ out[i + 1] = SetParent(s, lowered[e].cur)
        /\ \A f \in InsideOf(e) : lowered[f].cur = s

\* entry e's node has no attached scope: the current scope is passed through
PassesThrough(e) == \A f \in InsideOf(e) : lowered[f].cur = lowered[e].cur

(***************************************************************************)
(* C3.  When the pass completes, every lowered node with an attached scope *)
(* (the module aside, whose record has no parent) has exactly one          *)
(* allocation of that scope's record in the output, followed by the        *)
(* assignment of the then current scope to its parent link, and the nodes  *)
(* inside it were lowered with the new scope as current; a node without an *)
(* attached scope passes its current scope on, and every allocation in the *)
(* output is that of a lowered node's attached scope.                      *)
(***************************************************************************)
C3_ScopeInstantiation ==
    status = "done" =>
        /\ \A e \in LogIx :
               IF lowered[e].kind = "Module" THEN Cardinality(Allocations(lowered[e].attached)) = 1
               ELSE IF lowered[e].attached # NoScope THEN EntersScope(e)
               ELSE PassesThrough(e)
        /\ \A i \in At("NewScope") : \E e \in LogIx : lowered[e].attached = out[i].n

\* the same, of the nodes the code asks the resolver about: blocks, for
\* statements, catch clauses and function bodies
C3_AtInitScopeCallers ==
    status = "done" =>
        /\ \A e \in LogIx :
               IF lowered[e].kind = "Module" THEN Cardinality(Allocations(lowered[e].attached)) = 1
               ELSE IF lowered[e].kind \in {"BlockStatement", "ForStatement", "CatchClause"}
                       /\ lowered[e].attached # NoScope THEN EntersScope(e)
               ELSE lowered[e].attached = NoScope => PassesThrough(e)
        /\ \A i \in At("NewScope") : \E e \in LogIx : lowered[e].attached = out[i].n

(***************************************************************************)
(* Identifier accesses as the output shows them: "scope{C}->", some        *)
(* "parent->", "var{d}".                                                   *)
(***************************************************************************)
\* the scope whose instance the generated code stores in the parent link of
\* an instance of scope s: "scope{s}->parent = scope{m}"
RuntimeParents(s) == {out[i].m : i \in LinkSets(s)}

\* the scopes whose instance `steps` parent links lead to from an instance of s
RECURSIVE Reached(_, _)
Reached(s, steps) ==
    IF steps = 0 THEN {s}
    ELSE UNION {Reached(p, steps - 1) : p \in RuntimeParents(s)}

StartOf(i) == CHOOSE j \in 1..(i - 1) :
                  /\ out[j].k = "ScopeArrow"
                  /\ \A l \in (j + 1)..(i - 1) : out[l].k # "ScopeArrow"

Depth(s) == SemScope(s).depth

\* the access that ends at chunk i, a "var{d}"
AccessIsExact(i) ==
    LET start == StartOf(i)
        cur == out[start].n
        owner == SemDecl(out[i].n).scope
        steps == i - start - 1
    IN  /\ \A l \in (start + 1)..(i - 1) : out[l] = ParentArrow
        /\ steps = Depth(cur) - Depth(owner)
        /\ Reached(cur, steps) = {owner}

\* the identifier about to be lowered is a local one
AtLocalIdentifier ==
    /\ stack # << >>
    /\ Top.t = "expr"
    /\ Top.node.kind = "Identifier"
    /\ Top.node.res # Unresolved
    /\ SemDecl(Top.node.res).kind \notin GlobalKinds

(***************************************************************************)
(* C4.  Every access to an ordinary-local declaration owned by scope S,    *)
(* lowered with current scope C, starts at C's record and takes exactly    *)
(* depth(C) - depth(S) parent links before naming the slot; the difference *)
(* is never negative where an identifier is lowered; and the record those  *)
(* links lead to is an instance of S.                                      *)
(***************************************************************************)
C4_DepthConsistentAccess ==
    /\ AtLocalIdentifier => Depth(Top.scope) >= Depth(SemDecl(Top.node.res).scope)
    /\ \A i \in At("VarSlot") : AccessIsExact(i)

\* what holds of the code: the count of parent links is the difference of
\* the depths, which is never negative
C4_StepsAreDepthDifference ==
    /\ AtLocalIdentifier => Depth(Top.scope) >= Depth(SemDecl(Top.node.res).scope)
    /\ \A i \in At("VarSlot") :
           /\ \A l \in (StartOf(i) + 1)..(i - 1) : out[l] = ParentArrow
           /\ i - StartOf(i) - 1 = Depth(out[StartOf(i)].n) - Depth(SemDecl(out[i].n).scope)

\* the chunks an identifier lowered at entry e has written so far, as a
\* local access: "scope{cur}->", any "parent->", "var{d}"
IsSlotAccess(e, d) ==
    LET a == lowered[e].at
    IN  /\ Len(out) > a => out[a + 1] = ScopeArrow(lowered[e].cur)
        /\ \A j \in (a + 2)..Len(out) :
               (\A l \in (a + 2)..(j - 1) : out[l].k = "ParentArrow") =>
                   out[j].k = "ParentArrow" \/ out[j] = VarSlot(d)

\* the same, as a property of the global object: "global()", "->props[name]"
IsGlobalAccess(e, name) ==
    LET a == lowered[e].at
    IN  /\ Len(out) > a => out[a + 1] = Fixed("Global")
        /\ Len(out) > a + 1 => out[a + 2] = PropsName(name)

IdentifierEntries == {e \in LogIx : lowered[e].kind = "Identifier"}
KindOf(e) == SemDecl(lowered[e].res).kind

(***************************************************************************)
(* C5.  An identifier resolved to a global-property or undeclared-global-  *)
(* property declaration is lowered as a property access on the global      *)
(* object keyed by its name, never as a scope slot; an identifier resolved *)
(* to an ordinary-local declaration is lowered as a scope slot access,     *)
(* never as a property of the global object.                               *)
(***************************************************************************)
C5_GlobalLocalDichotomy ==
    /\ \A e \in IdentifierEntries :
           IF KindOf(e) \in GlobalKinds
           THEN IsGlobalAccess(e, lowered[e].name)
           ELSE IsSlotAccess(e, lowered[e].res)
    /\ \A i \in At("Global") :
           \E e \in IdentifierEntries : lowered[e].at = i - 1 /\ KindOf(e) \in GlobalKinds
    /\ \A i \in At("ScopeArrow") :
           \E e \in IdentifierEntries : lowered[e].at = i - 1 /\ KindOf(e) \in LocalKinds

\* a completed pass that lowered an undeclared global and a local
C5_Witness ==
    /\ status = "done"
    /\ \E e \in IdentifierEntries : KindOf(e) = "UndeclaredGlobalProperty"
    /\ \E e \in IdentifierEntries : KindOf(e) \in LocalKinds
    /\ At("Global") # {}
    /\ At("VarSlot") # {}

(***************************************************************************)
(* Aborts.                                                                 *)
(***************************************************************************)
\* the pass has panicked on an identifier without a resolution
AbortedOnUnresolved ==
    /\ status = "panicked"
    /\ stack # << >>
    /\ Top.t = "expr"
    /\ Top.node.kind = "Identifier"
    /\ Top.node.res = Unresolved

(***************************************************************************)
(* C6.  When the pass aborts on an identifier without a resolution,        *)
(* nothing has been appended to the output stream: the output is empty,    *)
(* and in particular holds no global-object lookup for that identifier.    *)
(***************************************************************************)
C6_UnresolvedAbortsBeforeOutput == AbortedOnUnresolved => out = << >>

\* what holds of the code: the abort writes nothing for the identifier;
\* the output ends with what was written before it was reached
C6_NothingWrittenForIdentifier ==
    AbortedOnUnresolved =>
        /\ \A e \in LogIx : lowered[e].id # Top.node.id
        /\ out # << >> => out[Len(out)].k \notin {"Global", "PropsName", "ScopeArrow"}

(***************************************************************************)
(* The statement and expression nodes of the input tree, binding names and *)
(* property names aside: what a complete lowering has to lower.            *)
(***************************************************************************)
EvaluatedKids(n) ==
    CASE n.kind = "VariableDeclarator" ->
             IF n.init = << >> THEN << >> ELSE <<n.ident, n.init[1]>>
      [] n.kind = "FunctionExpression" -> n.params \o <<n.body>>
      [] n.kind = "Property" -> (IF n.computed THEN <<n.key>> ELSE << >>) \o <<n.value>>
      [] n.kind = "MemberExpression" ->
             <<n.object>> \o (IF n.computed THEN <<n.property>> ELSE << >>)
      [] OTHER -> Kids(n)

RECURSIVE Evaluated(_)
Evaluated(n) ==
    LET kids == EvaluatedKids(n)
    IN  <<n>> \o Flatten([i \in 1..Len(kids) |-> Evaluated(kids[i])])

(***************************************************************************)
(* C7.  When the pass completes, every statement and every expression of   *)
(* the tree has been lowered exactly once: nothing is skipped, and in      *)
(* particular no try statement was lowered whose finally block was not.    *)
(***************************************************************************)
C7_NothingSkipped ==
    status = "done" =>
        LET nodes == Evaluated(prog.ast)
        IN  \A i \in 1..Len(nodes) :
                nodes[i].kind \in StmtKinds \cup ExprKinds =>
                    Cardinality(Entries(nodes[i].id)) = 1

\* what holds of the code: a try statement without a handler aborts the pass
C7_TryWithoutHandlerAborts ==
    status = "done" =>
        LET nodes == Evaluated(prog.ast)
        IN  \A i \in 1..Len(nodes) :
                nodes[i].kind = "TryStatement" /\ Entries(nodes[i].id) # {} =>
                    nodes[i].handler # << >>

(***************************************************************************)
(* C8.  Every chunk appended to the output stream is ASCII.                *)
(***************************************************************************)
C8_OutputIsAscii == \A i \in 1..Len(out) : IsAscii(out[i])

\* what holds of the code: with debug assertions compiled in, every chunk is
C8_AsciiInDebugBuild == debug_build => \A i \in 1..Len(out) : IsAscii(out[i])

(***************************************************************************)
(* Binary expressions.                                                     *)
(***************************************************************************)
ArithmeticOps == {"+", "-", "*", "/", "%", "<<", ">>", ">>>", "&", "|", "^"}
RelationalOps == {"<", "<=", ">", ">=", "==", "!=", "===", "!=="}
NativeOp(op) == IF op = "===" THEN "==" ELSE IF op = "!==" THEN "!=" ELSE op

\* the pass has panicked on a binary expression
AbortedOnBinary ==
    /\ status = "panicked"
    /\ stack # << >>
    /\ Top.t = "expr"
    /\ Top.node.kind = "BinaryExpression"

\* the entry of the right operand of the binary expression of entry e
RightOf(e) == {f \in LogIx : lowered[f].id = lowered[e].kids[2]}

\* binary expressions are lowered as: the operators of numberOps unwrap both
\* operands, apply the native operator and encode a Number, those of
\* boolOps encode a Boolean, every other operator aborts with nothing
\* written for the expression
BinaryLowering(numberOps, boolOps) ==
    /\ AbortedOnBinary =>
           /\ Top.node.operator \notin numberOps \cup boolOps
           /\ Entries(Top.node.id) = {}
    /\ \A e \in LogIx : lowered[e].kind = "BinaryExpression" =>
           LET op == lowered[e].op
               a == lowered[e].at
           IN  /\ op \in numberOps \cup boolOps
               /\ Len(out) > a =>
                      out[a + 1] = EncodeOpen(IF op \in numberOps THEN "Number" ELSE "Bool")
               /\ \A f \in RightOf(e) : out[lowered[f].at] = GetNumberOp(NativeOp(op))
    /\ status = "done" =>
           Cardinality(At("GetNumberClose")) =
               Cardinality({e \in LogIx : lowered[e].kind = "BinaryExpression"})

(***************************************************************************)
(* C9.  A binary expression whose operator is arithmetic or bitwise        *)
(* (+ - * / % << >> >>> & | ^) unwraps both operands to numbers, applies   *)
(* the native operator and encodes a Number; one whose operator is         *)
(* relational or an equality (< <= > >= == != === !==) encodes a Boolean,  *)
(* === and !== as native == and !=; any other operator aborts the pass     *)
(* with nothing written for the expression.                                *)
(***************************************************************************)
C9_BinaryOperators == BinaryLowering(ArithmeticOps, RelationalOps)

\* what holds of the code: the operators its two matches name
C9_OperatorsOfTheMatch ==
    BinaryLowering({"<<", ">>", "+", "-", "*", "/", "%"},
                   {"==", "===", "!==", "<", "<=", ">", ">="})

(***************************************************************************)
(* Calls and functions.                                                    *)
(***************************************************************************)
\* the chunks of kind k strictly between positions i and j
Between(i, j, k) == {x \in (i + 1)..(j - 1) : out[x].k = k}

\* whether position j closes what position i opened, openers and closers
\* in between pairing up
Pairs(i, j, open, close) ==
    /\ j > i
    /\ out[j].k = close
    /\ Cardinality(Between(i, j, open)) = Cardinality(Between(i, j, close))

Least(set) == {x \in set : \A y \in set : x <= y}

\* where the cast of the call of entry e starts, once written
CastOf(e) ==
    Least({j \in 1..Len(out) : Pairs(lowered[e].at + 1, j, "CallOpen", "GetClosureCast")})

\* where the closure of the function of entry e starts and ends, once written
OpenOf(e) == Least({j \in 1..Len(out) : j > lowered[e].at /\ out[j].k = "ClosureOpen"})
EndOf(q) == Least({j \in 1..Len(out) : Pairs(q, j, "ClosureOpen", "ClosureClose")})

\* position i of the output holds chunk c, or is not written yet
Holds(i, c) == i <= Len(out) => out[i] = c

Calls == {e \in LogIx : lowered[e].kind = "CallExpression"}
Functions ==
    {e \in LogIx : lowered[e].kind \in {"FunctionExpression", "FunctionDeclaration"}}

RECURSIVE TotalArity(_)
TotalArity(set) ==
    IF set = {} THEN 0
    ELSE LET e == CHOOSE x \in set : TRUE
         IN  lowered[e].arity + TotalArity(set \ {e})

\* the cast and the invocation of the call of entry e
CallShape(e) ==
    LET n == lowered[e].arity
        Arg(j) == {f \in LogIx : lowered[f].id = lowered[e].kids[j + 1]}
    IN  /\ Holds(lowered[e].at + 1, Fixed("CallOpen"))
        /\ \A p \in CastOf(e) :
               /\ Holds(p + 1, EnvParam)
               /\ \A i \in 1..n : Holds(p + 1 + i, ValueParam(i - 1))
               /\ Holds(p + n + 2, Fixed("CastClose"))
               /\ Holds(p + n + 3, Fixed("TmpEnv"))
               /\ Holds(p + n + 4, Fixed(IF n = 0 THEN "CallClose" ELSE "CommaSpace"))
               /\ n >= 1 => \A f \in Arg(1) : lowered[f].at = p + n + 4
        /\ \A j \in 1..n : \A f \in Arg(j) :
               /\ out[lowered[f].at] = Fixed("CommaSpace")
               /\ lowered[f].cur = lowered[e].cur
               /\ CastOf(e) # {}
               /\ j > 1 => \E g \in Arg(j - 1) : lowered[g].at < lowered[f].at

\* the native function and the closure of the function of entry e
FunctionShape(e) ==
    LET k == lowered[e].arity
        cur == lowered[e].cur
        body == lowered[e + 1]
        fn_scope == body.attached
        Formal(i) == {f \in LogIx : lowered[f].id = body.kids[i]}
    IN  \A q \in OpenOf(e) :
            /\ Holds(q + 1, EnvParam)
            /\ \A i \in 1..k : Holds(q + 1 + i, ValueParam(i - 1))
            /\ Holds(q + k + 2, Fixed("LambdaOpen"))
            /\ Holds(q + k + 3, BindEnv(cur))
            /\ Holds(q + k + 4, NewScope(fn_scope))
            /\ Holds(q + k + 5, SetParent(fn_scope, cur))
            /\ \A i \in 1..k : \A f \in Formal(i) :
                   LET a == q + k + 5 + 3 * (i - 1)
                   IN  /\ lowered[f].at = a
                       /\ Holds(a + 1, ScopeArrow(fn_scope))
                       /\ Holds(a + 2, VarSlot(lowered[f].res))
                       /\ Holds(a + 3, ParamCopy(i - 1))
                       /\ SemDecl(lowered[f].res).scope = fn_scope
            /\ \A j \in EndOf(q) : out[j] = ClosureClose(cur)
            /\ status = "done" => EndOf(q) # {}

(***************************************************************************)
(* C10.  A call with n arguments casts the function pointer to a signature *)
(* of the environment pointer followed by exactly n value parameters and   *)
(* passes the closure's environment first, then the n lowered arguments in *)
(* source order.  A function with k formals becomes a native function of   *)
(* the environment pointer followed by exactly k value parameters, copies  *)
(* formal i into the slot of the i-th formal's declaration in its own      *)
(* fresh scope, and its closure captures the scope current where it is     *)
(* created.                                                                *)
(***************************************************************************)
C10_CallAndFunctionSignatures ==
    /\ \A e \in Calls : CallShape(e)
    /\ \A e \in Functions : FunctionShape(e)
    /\ status = "done" =>
           /\ \A e \in Calls : CastOf(e) # {}
           /\ \A e \in Functions : OpenOf(e) # {}
           /\ Cardinality(At("EnvParam")) = Cardinality(Calls \cup Functions)
           /\ Cardinality(At("ValueParam")) = TotalArity(Calls \cup Functions)
           /\ Cardinality(At("CommaSpace")) = TotalArity(Calls)
           /\ Cardinality(At("ParamCopy")) = TotalArity(Functions)

\* a finished lowering of a call with arguments to a function with formals
C10_Witness ==
    /\ status = "done"
    /\ \E e \in Calls : lowered[e].arity = MaxArgs
    /\ \E e \in Functions : lowered[e].arity = MaxParams
    /\ At("ParamCopy") # {}
    /\ At("CommaSpace") # {}

(***************************************************************************)
(* Statement lists.                                                        *)
(***************************************************************************)
\* the chunks whose text ends a native statement: its last character that
\* is not a line break is ';' or '}'
Terminators ==
    {"Semi", "SemiNewline", "BlockClose", "NewlineBrace", "CloseBrace", "ParamCopy",
     "NewScope", "SetParent", "BindEnv", "StructClose", "FwdDecl", "ParentField",
     "VarField", "Return0"}

\* whether the lowering of the statement or declarator of entry f writes
\* text: a declarator without an initialiser writes nothing, and neither
\* does a declaration of such declarators only
WritesText(f) ==
    CASE lowered[f].kind = "VariableDeclarator" -> Len(lowered[f].kids) = 2
      [] lowered[f].kind = "VariableDeclaration" ->
             \E j \in 1..Len(lowered[f].kids) : \E h \in Entries(lowered[f].kids[j]) :
                 Len(lowered[h].kids) = 2
      [] OTHER -> TRUE

\* the statement lists lowered so far: the module body, the bodies of
\* functions, catch clauses and block statements, and the declarator lists
ListsOf(kinds) == {e \in LogIx : lowered[e].kind \in kinds}

\* the consecutive members f, g of the list of entry e, both lowered and
\* both writing text
Neighbours(e) ==
    {p \in LogIx \X LogIx :
        /\ lowered[p[1]].kind \in StmtKinds
        /\ lowered[p[2]].kind \in StmtKinds
        /\ \E i \in 1..(Len(lowered[e].kids) - 1) :
               /\ lowered[p[1]].id = lowered[e].kids[i]
               /\ lowered[p[2]].id = lowered[e].kids[i + 1]
        /\ WritesText(p[1])
        /\ WritesText(p[2])}

\* what is written just before the lowering of g starts ends a statement
Separated(p) ==
    /\ lowered[p[2]].at > lowered[p[1]].at
    /\ out[lowered[p[2]].at].k \in Terminators

(***************************************************************************)
(* C11.  The lowerings of two consecutive statements of one statement list *)
(* (module body, function body, catch body, body of a block statement) and *)
(* of two consecutive declarators of one variable declaration are          *)
(* separated by a statement terminator, ';' or a closing brace: the text   *)
(* of one is never directly followed by the first token of the next.       *)
(***************************************************************************)
C11_StatementsSeparated ==
    \A e \in ListsOf({"Module", "BlockStatement", "VariableDeclaration"}) :
        \A p \in Neighbours(e) : Separated(p)

\* the kinds of statement whose own lowering ends with ';' or '}'
SelfTerminated ==
    {"BlockStatement", "ReturnStatement", "ExpressionStatement", "WhileStatement",
     "ForStatement", "IfStatement", "TryStatement"}

\* the lists whose loop writes ';' after each member: every list but the
\* body of a block statement and the declarators of a declaration
WrittenWithSeparator(e) ==
    \/ lowered[e].kind = "Module"
    \/ /\ lowered[e].kind = "BlockStatement"
       /\ \E o \in LogIx :
              /\ lowered[o].kind \in
                     {"FunctionExpression", "FunctionDeclaration", "CatchClause"}
              /\ lowered[o].kids # << >>
              /\ lowered[o].kids[Len(lowered[o].kids)] = lowered[e].id

\* what holds of the code: the statements of a module, function or catch
\* body are separated, and in the other lists those that follow a
\* statement which ends with its own terminator
C11_SeparatedWhereTheLoopTerminates ==
    \A e \in ListsOf({"Module", "BlockStatement", "VariableDeclaration"}) :
        \A p \in Neighbours(e) :
            (WrittenWithSeparator(e) \/ lowered[p[1]].kind \in SelfTerminated) =>
                Separated(p)

=============================================================================
